---------------------------- MODULE Spec2Model ----------------------------
(***************************************************************************)
(* Model of the coSPEC n8n nodes: the action node's execute loop with      *)
(* createRun / getRun / pollUntilComplete, the API client                  *)
(* (cospecApiRequest, extractApiErrorMessage, extractFromBody), the output *)
(* normaliser (flattenRunOutput) and the trigger's buildTriggerOutput.     *)
(*                                                                         *)
(* JavaScript values are encoded as one-field records whose field name is  *)
(* the JavaScript type:                                                    *)
(*   [undef |-> TRUE]  undefined        [null |-> TRUE]  null              *)
(*   [str |-> s]       a string         [num |-> n]      a number          *)
(*   [obj |-> f]       an object, f a function from property names         *)
(*   [arr |-> q]       an array, q a sequence of values                    *)
(* The result of a call is [ret |-> v] (it returned v) or [throw |-> e]    *)
(* (it threw the error object e).                                          *)
(***************************************************************************)
EXTENDS Integers, Sequences, FiniteSets, TLC

-----------------------------------------------------------------------------
(* JavaScript values *)

Undefined == [undef |-> TRUE]

Null == [null |-> TRUE]

Str(s) == [str |-> s]

Num(n) == [num |-> n]

Obj(f) == [obj |-> f]

Arr(q) == [arr |-> q]

EmptyObj == [k \in {} |-> Undefined]

IsStr(v) == "str" \in DOMAIN v

IsObj(v) == "obj" \in DOMAIN v

IsArr(v) == "arr" \in DOMAIN v

IsNullish(v) == v = Undefined \/ v = Null

\* ToBoolean: undefined, null, "" and 0 are falsy; objects and arrays are truthy
Truthy(v) ==
    /\ ~IsNullish(v)
    /\ (IsStr(v) => v.str # "")
    /\ ("num" \in DOMAIN v => v.num # 0)

\* v.k, for v neither null nor undefined (a primitive has no such property)
Get(v, k) == IF IsObj(v) /\ k \in DOMAIN v.obj THEN v.obj[k] ELSE Undefined

\* v?.k
OptGet(v, k) == IF IsNullish(v) THEN Undefined ELSE Get(v, k)

\* { ...o, k: x }
With(f, k, x) == [j \in (DOMAIN f) \cup {k} |-> IF j = k THEN x ELSE f[j]]

Ret(v) == [ret |-> v]

Throw(e) == [throw |-> e]

Threw(r) == "throw" \in DOMAIN r

\* the TypeError the engine raises on a property read of null or undefined, or
\* on a call of something that is not a function
TypeError == Obj([name |-> Str("TypeError"), message |-> Str("TypeError")])

\* new NodeOperationError(node, message, { itemIndex }); ctx is the context
\* object (itemIndex present only when the option was given)
NodeOperationError(message, ctx) ==
    Obj([name |-> Str("NodeOperationError"), message |-> message, context |-> Obj(ctx)])

-----------------------------------------------------------------------------
(* GenericFunctions: the error extractor *)

extractFromBody(data) ==
    LET detail == Get(data, "detail")
        errors == Get(data, "errors")
        title  == Get(data, "title")
    IN  IF IsStr(detail) THEN Ret(detail)
        ELSE IF IsArr(errors) /\ Len(errors.arr) > 0 /\ IsNullish(errors.arr[1])
             THEN Throw(TypeError)          \* first.message on null
        ELSE IF IsArr(errors) /\ Len(errors.arr) > 0
                /\ IsStr(Get(errors.arr[1], "message"))
             THEN Ret(Get(errors.arr[1], "message"))
        ELSE IF IsStr(title) THEN Ret(title)
        ELSE Ret(Undefined)

extractApiErrorMessage(error) ==
    IF IsNullish(error) THEN Throw(TypeError)      \* err.context on null
    ELSE
    LET contextData == OptGet(Get(error, "context"), "data")
        causeData   == OptGet(OptGet(Get(error, "cause"), "response"), "data")
        fromContext == IF Truthy(contextData) THEN extractFromBody(contextData)
                       ELSE Ret(Undefined)
        fromCause   == IF Truthy(causeData) THEN extractFromBody(causeData)
                       ELSE Ret(Undefined)
    IN  IF Threw(fromContext) THEN fromContext
        ELSE IF Truthy(fromContext.ret) THEN fromContext
        ELSE IF Threw(fromCause) THEN fromCause
        ELSE IF Truthy(fromCause.ret) THEN fromCause
        ELSE IF IsStr(Get(error, "description")) THEN Ret(Get(error, "description"))
        ELSE IF Truthy(Get(error, "message")) THEN Ret(Get(error, "message"))
        ELSE Ret(Str("Unknown API error"))

\* cospecApiRequestCatch passing on the HTTP layer's generic status text
cospecApiRequestCatch_Generic(error) ==
    Throw(NodeOperationError(Get(error, "message"), EmptyObj))

\* The catch block of cospecApiRequest: what the request throws when the
\* underlying HTTP call failed with `error`
cospecApiRequestCatch(error) ==
    LET message == extractApiErrorMessage(error)
    IN  IF Threw(message) THEN message
        ELSE Throw(NodeOperationError(message.ret, EmptyObj))

-----------------------------------------------------------------------------
(* GenericFunctions: the output normaliser *)

INTERNAL_FIELDS == {"callbackUrl", "callbackStatus", "cancelRequestedAt", "templateId"}

\* outputs.find((o) => o.type === type): the first match, undefined when there
\* is none; reading o.type throws on a null or undefined element
RECURSIVE find(_, _)
find(q, type) ==
    IF q = <<>> THEN Ret(Undefined)
    ELSE IF IsNullish(Head(q)) THEN Throw(TypeError)
    ELSE IF Get(Head(q), "type") = Str(type) THEN Ret(Head(q))
    ELSE find(Tail(q), type)

\* firstOfType(type), outputs being any value
firstOfType(outputs, type) ==
    IF IsArr(outputs) THEN find(outputs.arr, type) ELSE Throw(TypeError)

\* value ?? fallback
Coalesce(v, fallback) == IF IsNullish(v) THEN fallback ELSE v

flattenRunOutput(run) ==
    LET filtered == [k \in (DOMAIN run.obj) \ INTERNAL_FIELDS |-> run.obj[k]]
        outputs  == Coalesce(Get(Obj(filtered), "outputs"), Arr(<<>>))
        pr     == firstOfType(outputs, "pr")
        issue  == firstOfType(outputs, "issue")
        branch == firstOfType(outputs, "branch")
        text   == firstOfType(outputs, "text")
    IN  IF Threw(pr) THEN pr
        ELSE IF Threw(issue) THEN issue
        ELSE IF Threw(branch) THEN branch
        ELSE IF Threw(text) THEN text
        ELSE Ret(Obj(
            With(With(With(With(filtered,
              "pr", IF Truthy(pr.ret)
                    THEN Obj([url |-> Get(pr.ret, "url"), title |-> Get(pr.ret, "title"),
                              number |-> Get(pr.ret, "number")])
                    ELSE Null),
              "issue", IF Truthy(issue.ret)
                    THEN Obj([url |-> Get(issue.ret, "url"),
                              title |-> Get(issue.ret, "title"),
                              number |-> Get(issue.ret, "number")])
                    ELSE Null),
              "branch", IF Truthy(branch.ret)
                    THEN Obj([name |-> Get(branch.ret, "name")])
                    ELSE Null),
              "summary", Coalesce(OptGet(text.ret, "content"), Null))))

-----------------------------------------------------------------------------
(* CospecTrigger: the webhook payload handler *)

buildTriggerOutput(body) ==
    LET run == Get(body, "run")
    IN  IF ~Truthy(run)
        THEN Ret(Obj([event |-> Get(body, "event"), timestamp |-> Get(body, "timestamp")]))
        ELSE LET flat == flattenRunOutput(run)
             IN  IF Threw(flat) THEN flat
                 ELSE Ret(Obj([k \in {"event", "timestamp"} \cup DOMAIN flat.ret.obj |->
                                IF k \in DOMAIN flat.ret.obj THEN flat.ret.obj[k]
                                ELSE Get(body, k)]))

-----------------------------------------------------------------------------
(* Cospec.node: constants and bounds *)

POLL_INTERVAL_MS == 5000

TIMEOUT_BUFFER_MS == 60000

DEFAULT_TIMEOUT_SECONDS == 1800

\* TERMINAL_STATUSES with a status forgotten
TERMINAL_STATUSES_NoCancelled == {"completed", "failed"}

TERMINAL_STATUSES == {"completed", "failed", "cancelled"}

\* the longest input batch
MaxItems == 2

\* how many HTTP calls of one item may be slow, and how long a slow call takes
MaxSlow == 1

SlowMs == 2500

VARIABLES
    items,           \* this.getInputData(): the node parameters of each input item
    continueOnFail,  \* this.continueOnFail()
    i,               \* execute: the loop index (0-based)
    pc,              \* where the execution stands
    now,             \* Date.now(), in ms since the current item was taken up
    slow,            \* slow HTTP calls of the current item so far
    response,        \* createRun: the POST response
    timeoutSeconds,  \* pollUntilComplete: parameter
    runId,           \* pollUntilComplete: parameter
    deadline,        \* pollUntilComplete: deadline
    run,             \* pollUntilComplete / getRun: the run last fetched
    returnData,      \* execute: the output entries
    thrown,          \* the error execute raised, undefined while it has raised none
    lastReq,         \* history: the HTTP request issued last
    lastError,       \* history: the error the HTTP layer rejected with last
    pollStart,       \* history: Date.now() on entry to pollUntilComplete
    how,             \* history: how the current item's work ended ("": it has not)
    caught,          \* history: the error execute caught for the current item
    nPost, nGet, nSleep,  \* history: POSTs, GETs and sleeps of the current item
    arg, res, res2,  \* input and results of the pure functions (their own specifications)
    webhookData,     \* trigger: this.getWorkflowStaticData('node')
    remote,          \* the remote service: the ids of the webhooks registered, oldest first
    nextId,          \* the remote service: webhooks created so far
    hookReqs,        \* history: the HTTP requests of the webhook method called last
    hookRes          \* the outcome of the webhook method called last, undefined while it runs

\* the trigger's state and the remote webhook registry
hookVars == <<webhookData, remote, nextId, hookReqs, hookRes>>

\* no trigger activity
IdleHook ==
    /\ webhookData = [obj |-> [k \in {} |-> [undef |-> TRUE]]]
    /\ remote = <<>> /\ nextId = 0 /\ hookReqs = <<>> /\ hookRes = [undef |-> TRUE]

execVars == <<items, continueOnFail, i, pc, now, slow, response, timeoutSeconds, runId,
              deadline, run, returnData, thrown, lastReq, lastError, pollStart, how, caught,
              nPost, nGet, nSleep>>

execVarsButPc == <<items, continueOnFail, i, now, slow, response, timeoutSeconds, runId,
                   deadline, run, returnData, thrown, lastReq, lastError, pollStart, how,
                   caught, nPost, nGet, nSleep>>

vars == <<items, continueOnFail, i, pc, now, slow, response, timeoutSeconds, runId,
          deadline, run, returnData, thrown, lastReq, lastError, pollStart, how, caught,
          nPost, nGet, nSleep, arg, res, res2, hookVars>>

-----------------------------------------------------------------------------
(* The environment: node parameters, the remote service, the HTTP layer *)

\* the parameters of an input item: operation, waitForCompletion,
\* guardrails.timeoutSeconds (0: not set) and runId
Item(operation, wait, timeout, id) ==
    [operation |-> operation, waitForCompletion |-> wait, timeoutSeconds |-> timeout,
     runId |-> id]

ItemChoices ==
    { Item("Create Run", TRUE, 5, ""), Item("Create Run", FALSE, 5, ""),
      Item("Get Run", TRUE, 0, "r9") }

ItemLists == UNION { [1..n -> ItemChoices] : n \in 0..MaxItems }

\* what POST /v1/runs answers for the n-th item: the new run under a fresh id,
\* internal fields included
PostResponses(n) ==
    { Obj([id |-> Str("r" \o ToString(n + 1)), status |-> Str(st),
           templateId |-> Str("tpl"), callbackUrl |-> Str("https://cb")]) :
        st \in {"queued"} }

PrOutput == Obj([type |-> Str("pr"), url |-> Str("u"), title |-> Str("t"), number |-> Num(1)])

TextOutput == Obj([type |-> Str("text"), content |-> Str("s")])

\* what GET /v1/runs/{id} answers
GetResponses(id) ==
    { Obj([id |-> id, status |-> Str("running"), templateId |-> Str("tpl")]),
      Obj([id |-> id, status |-> Str("paused")]),
      Obj([id |-> id]),
      Obj([id |-> id, status |-> Str("completed"), callbackStatus |-> Str("sent"),
           outputs |-> Arr(<<PrOutput, TextOutput>>)]),
      Obj([id |-> id, status |-> Str("failed"), failReason |-> Str("max_turns"),
           outputs |-> Arr(<<>>)]),
      Obj([id |-> id, status |-> Str("cancelled"), cancelRequestedAt |-> Str("t0")]) }

\* what httpRequestWithAuthentication rejects with: a NodeApiError around an
\* RFC 9457 body, and a transport error without a body
HttpErrors ==
    { Obj([message |-> Str("Bad request - please check your parameters"),
           context |-> Obj([data |-> Obj([title |-> Str("Not Found"), status |-> Num(404),
                                          detail |-> Str("Run not found")])])]),
      Obj([message |-> Str("connect ECONNREFUSED")]) }

\* how long an HTTP call may take
Durations == {0} \cup (IF slow < MaxSlow THEN {SlowMs} ELSE {})

\* template literal interpolation of a value that is cast to string
Text(v) == IF IsStr(v) THEN v.str ELSE "undefined"

RunPath(id) == "/v1/runs/" \o Text(id)

-----------------------------------------------------------------------------
(* Cospec.node: helpers *)

getTimeoutSeconds(item) ==
    IF item.timeoutSeconds # 0 THEN item.timeoutSeconds ELSE DEFAULT_TIMEOUT_SECONDS

\* TimeoutMessage naming the grace-extended time
TimeoutMessage_Grace(id, seconds) ==
    Str("Run " \o Text(id) \o " did not complete within " \o ToString(seconds + 60)
        \o "s timeout")

TimeoutMessage(id, seconds) ==
    Str("Run " \o Text(id) \o " did not complete within " \o ToString(seconds)
        \o "s timeout")

\* the item execute is working on
cur == items[i + 1]

\* execute: returnData.push({ json: result, pairedItem: { item: i } }), next item
Return(result) ==
    /\ returnData' = Append(returnData, [json |-> result, pairedItem |-> [item |-> i]])
    /\ i' = i + 1
    /\ pc' = "loop"
    /\ how' = "returned"
    /\ UNCHANGED <<thrown, caught>>

\* Catch that ignores continueOnFail: any failure ends execute
Catch_AlwaysAbort(error, kind) ==
    /\ how' = kind
    /\ caught' = error
    /\ thrown' = IF Truthy(Get(error, "context"))
                 THEN Obj(With(error.obj, "context",
                          Obj(With(Get(error, "context").obj, "itemIndex", Num(i)))))
                 ELSE NodeOperationError(Get(error, "message"), [itemIndex |-> Num(i)])
    /\ pc' = "aborted"
    /\ UNCHANGED <<returnData, i>>

\* execute: the catch block, reached by `error` thrown anywhere in the item's work
\* (kind: "failed" by the HTTP layer, "timeout" of the poll, "threw" otherwise)
Catch(error, kind) ==
    /\ how' = kind
    /\ caught' = error
    /\ IF continueOnFail
       THEN /\ returnData' = Append(returnData,
                   [json |-> Obj([error |-> Get(error, "message")]),
                    pairedItem |-> [item |-> i]])
            /\ i' = i + 1
            /\ pc' = "loop"
            /\ UNCHANGED thrown
       ELSE /\ thrown' = IF Truthy(Get(error, "context"))
                         THEN Obj(With(error.obj, "context",
                                  Obj(With(Get(error, "context").obj, "itemIndex", Num(i)))))
                         ELSE NodeOperationError(Get(error, "message"),
                                                 [itemIndex |-> Num(i)])
            /\ pc' = "aborted"
            /\ UNCHANGED <<returnData, i>>

\* the outcome of a function call reaches execute: a value is pushed, an error caught
Finish(outcome) ==
    IF Threw(outcome) THEN Catch(outcome.throw, "threw") ELSE Return(outcome.ret)

-----------------------------------------------------------------------------
(* Cospec.node: execute, createRun, getRun, pollUntilComplete *)

Init ==
    /\ items \in ItemLists
    /\ continueOnFail \in BOOLEAN
    /\ i = 0
    /\ pc = "loop"
    /\ now = 0
    /\ slow = 0
    /\ response = Undefined
    /\ timeoutSeconds = 0
    /\ runId = Undefined
    /\ deadline = 0
    /\ run = Undefined
    /\ returnData = <<>>
    /\ thrown = Undefined
    /\ lastReq = <<>>
    /\ lastError = Undefined
    /\ pollStart = 0
    /\ how = ""
    /\ caught = Undefined
    /\ nPost = 0 /\ nGet = 0 /\ nSleep = 0
    /\ arg = Undefined
    /\ res = Undefined
    /\ res2 = Undefined
    /\ IdleHook

\* for (let i = 0; i < items.length; i++): take up item i, or return [returnData]
ExecuteLoop ==
    /\ pc = "loop"
    /\ IF i < Len(items)
       THEN pc' = IF cur.operation = "Create Run" THEN "createRun" ELSE "getRun"
       ELSE pc' = "done"
    /\ now' = 0 /\ slow' = 0
    /\ response' = Undefined /\ run' = Undefined /\ runId' = Undefined
    /\ timeoutSeconds' = 0 /\ deadline' = 0 /\ pollStart' = 0
    /\ how' = "" /\ caught' = Undefined
    /\ nPost' = 0 /\ nGet' = 0 /\ nSleep' = 0
    /\ UNCHANGED <<items, continueOnFail, i, returnData, thrown, lastReq, lastError,
                   arg, res, res2, hookVars>>

\* createRun: the POST /v1/runs and the await of its answer
CreateRunPost ==
    /\ pc = "createRun"
    /\ lastReq' = <<"POST", "/v1/runs">>
    /\ nPost' = nPost + 1
    /\ \E d \in Durations :
         /\ now' = now + d
         /\ slow' = slow + (IF d > 0 THEN 1 ELSE 0)
    /\ \/ \E r \in PostResponses(i) :
            /\ response' = r
            /\ pc' = "createRun_wait"
            /\ UNCHANGED <<i, returnData, thrown, lastError, how, caught>>
       \/ \E e \in HttpErrors :
            /\ lastError' = e
            /\ Catch(cospecApiRequestCatch(e).throw, "failed")
            /\ UNCHANGED response
    /\ UNCHANGED <<pollStart, items, continueOnFail, timeoutSeconds, runId, deadline, run, nGet,
                   nSleep, arg, res, res2, hookVars>>

\* CreateRunWait that polls whatever waitForCompletion says
CreateRunWait_AlwaysPoll ==
    /\ pc = "createRun_wait"
    /\ timeoutSeconds' = getTimeoutSeconds(cur)
    /\ runId' = Get(response, "id")
    /\ deadline' = now + getTimeoutSeconds(cur) * 1000 + TIMEOUT_BUFFER_MS
    /\ pollStart' = now
    /\ pc' = "poll_test"
    /\ UNCHANGED <<i, returnData, thrown, how, caught>>
    /\ UNCHANGED <<items, continueOnFail, now, slow, response, run, lastReq, lastError,
                   nPost, nGet, nSleep, arg, res, res2, hookVars>>

\* createRun: return the response, or enter pollUntilComplete(response.id, ...)
CreateRunWait ==
    /\ pc = "createRun_wait"
    /\ IF ~cur.waitForCompletion
       THEN /\ Return(response)
            /\ UNCHANGED <<timeoutSeconds, runId, deadline, pollStart>>
       ELSE /\ timeoutSeconds' = getTimeoutSeconds(cur)
            /\ runId' = Get(response, "id")
            /\ deadline' = now + getTimeoutSeconds(cur) * 1000 + TIMEOUT_BUFFER_MS
            /\ pollStart' = now
            /\ pc' = "poll_test"
            /\ UNCHANGED <<i, returnData, thrown, how, caught>>
    /\ UNCHANGED <<items, continueOnFail, now, slow, response, run, lastReq, lastError,
                   nPost, nGet, nSleep, arg, res, res2, hookVars>>

\* pollUntilComplete: while (Date.now() < deadline), else the timeout error
PollTest ==
    /\ pc = "poll_test"
    /\ IF now < deadline
       THEN /\ pc' = "poll_sleep"
            /\ UNCHANGED <<i, returnData, thrown, how, caught>>
       ELSE Catch(NodeOperationError(TimeoutMessage(runId, timeoutSeconds),
                                     [itemIndex |-> Num(i)]), "timeout")
    /\ UNCHANGED <<pollStart, items, continueOnFail, now, slow, response, timeoutSeconds, runId,
                   deadline, run, lastReq, lastError, nPost, nGet, nSleep, arg, res, res2, hookVars>>

\* pollUntilComplete: await sleep(POLL_INTERVAL_MS)
PollSleep ==
    /\ pc = "poll_sleep"
    /\ now' = now + POLL_INTERVAL_MS
    /\ nSleep' = nSleep + 1
    /\ pc' = "poll_get"
    /\ UNCHANGED <<pollStart, how, caught, items, continueOnFail, i, slow, response, timeoutSeconds, runId, deadline,
                   run, returnData, thrown, lastReq, lastError, nPost, nGet, arg, res, res2, hookVars>>

\* pollUntilComplete: the GET /v1/runs/{runId} and the await of its answer
PollGet ==
    /\ pc = "poll_get"
    /\ lastReq' = <<"GET", RunPath(runId)>>
    /\ nGet' = nGet + 1
    /\ \E d \in Durations :
         /\ now' = now + d
         /\ slow' = slow + (IF d > 0 THEN 1 ELSE 0)
    /\ \/ \E r \in GetResponses(runId) :
            /\ run' = r
            /\ pc' = "poll_check"
            /\ UNCHANGED <<i, returnData, thrown, lastError, how, caught>>
       \/ \E e \in HttpErrors :
            /\ lastError' = e
            /\ Catch(cospecApiRequestCatch(e).throw, "failed")
            /\ UNCHANGED run
    /\ UNCHANGED <<pollStart, items, continueOnFail, response, timeoutSeconds, runId, deadline, nPost,
                   nSleep, arg, res, res2, hookVars>>

\* pollUntilComplete: if (TERMINAL_STATUSES.has(run.status)) return flattenRunOutput(run)
PollCheck ==
    /\ pc = "poll_check"
    /\ IF IsStr(Get(run, "status")) /\ Get(run, "status").str \in TERMINAL_STATUSES
       THEN /\ Finish(flattenRunOutput(run))
            /\ UNCHANGED run
       ELSE /\ pc' = "poll_test"
            /\ run' = Undefined
            /\ UNCHANGED <<i, returnData, thrown, how, caught>>
    /\ UNCHANGED <<pollStart, items, continueOnFail, now, slow, response, timeoutSeconds, runId,
                   deadline, lastReq, lastError, nPost, nGet, nSleep, arg, res, res2, hookVars>>

\* getRun: the GET /v1/runs/{runId} and the await of its answer
GetRunGet ==
    /\ pc = "getRun"
    /\ lastReq' = <<"GET", "/v1/runs/" \o cur.runId>>
    /\ nGet' = nGet + 1
    /\ \E d \in Durations :
         /\ now' = now + d
         /\ slow' = slow + (IF d > 0 THEN 1 ELSE 0)
    /\ \/ \E r \in GetResponses(Str(cur.runId)) :
            /\ run' = r
            /\ pc' = "getRun_return"
            /\ UNCHANGED <<i, returnData, thrown, lastError, how, caught>>
       \/ \E e \in HttpErrors :
            /\ lastError' = e
            /\ Catch(cospecApiRequestCatch(e).throw, "failed")
            /\ UNCHANGED run
    /\ UNCHANGED <<pollStart, items, continueOnFail, response, timeoutSeconds, runId, deadline, nPost,
                   nSleep, arg, res, res2, hookVars>>

\* getRun: return flattenRunOutput(run)
GetRunReturn ==
    /\ pc = "getRun_return"
    /\ Finish(flattenRunOutput(run))
    /\ UNCHANGED <<pollStart, items, continueOnFail, now, slow, response, timeoutSeconds, runId,
                   deadline, run, lastReq, lastError, nPost, nGet, nSleep, arg, res, res2, hookVars>>

Next ==
    \/ ExecuteLoop
    \/ CreateRunPost
    \/ CreateRunWait
    \/ PollTest
    \/ PollSleep
    \/ PollGet
    \/ PollCheck
    \/ GetRunGet
    \/ GetRunReturn

Spec == Init /\ [][Next]_vars

-----------------------------------------------------------------------------
(* The pure functions, applied to inputs of every shape *)

\* the variables of execute, idle
IdleExec ==
    /\ items = <<>> /\ continueOnFail = FALSE /\ i = 0 /\ now = 0 /\ slow = 0
    /\ response = Undefined /\ timeoutSeconds = 0 /\ runId = Undefined /\ deadline = 0
    /\ run = Undefined /\ returnData = <<>> /\ thrown = Undefined /\ lastReq = <<>>
    /\ lastError = Undefined /\ pollStart = 0 /\ how = "" /\ caught = Undefined
    /\ nPost = 0 /\ nGet = 0 /\ nSleep = 0
    /\ IdleHook

\* the property k with value v, no property when v is undefined
Opt(k, v) == IF v = Undefined THEN EmptyObj ELSE (k :> v)

\* response bodies: RFC 9457 problem objects, well formed or not
Bodies ==
    { Obj(Opt("detail", d) @@ Opt("errors", e) @@ Opt("title", t)) :
        d \in {Undefined, Str(""), Str("D"), Num(7)},
        e \in {Undefined, Arr(<<>>), Arr(<<Obj([message |-> Str("X")])>>),
               Arr(<<Obj([message |-> Str("")]), Obj([message |-> Str("X2")])>>),
               Arr(<<Obj([code |-> Str("c")])>>), Arr(<<Null>>), Arr(<<Str("e")>>),
               Obj([message |-> Str("not an array")])},
        t \in {Undefined, Str(""), Str("Y")} }
    \cup {Null, Str("raw text"), Num(0)}

CauseBodies ==
    { Obj(Opt("detail", d) @@ Opt("errors", e) @@ Opt("title", t)) :
        d \in {Undefined, Str("CD")},
        e \in {Undefined, Arr(<<Obj([message |-> Str("CX")])>>), Arr(<<Null>>)},
        t \in {Undefined, Str("CY")} }

\* the errors the HTTP layer may reject with
ErrorShapes ==
    { Obj(Opt("context", c) @@ Opt("cause", k) @@ Opt("description", d) @@ Opt("message", m)) :
        c \in {Undefined, Null, Obj(EmptyObj)} \cup {Obj([data |-> b]) : b \in Bodies},
        k \in {Undefined, Obj(EmptyObj), Obj([response |-> Obj(EmptyObj)])}
              \cup {Obj([response |-> Obj([data |-> b])]) : b \in CauseBodies},
        d \in {Undefined, Str(""), Str("desc"), Num(1)},
        m \in {Undefined, Str(""), Str("M")} }

InitExtract ==
    /\ IdleExec
    /\ pc = "extract"
    /\ arg \in ErrorShapes
    /\ res = Undefined
    /\ res2 = Undefined

\* extractApiErrorMessage(arg)
ExtractMessage ==
    /\ pc = "extract"
    /\ res' = extractApiErrorMessage(arg)
    /\ pc' = "extracted"
    /\ UNCHANGED <<execVarsButPc, arg, res2, hookVars>>

\* cospecApiRequest, its HTTP call having rejected with arg
ApiRequestRejects ==
    /\ pc = "extracted"
    /\ res2' = cospecApiRequestCatch(arg)
    /\ pc' = "rejected"
    /\ UNCHANGED <<execVarsButPc, arg, res, hookVars>>

NextExtract == ExtractMessage \/ ApiRequestRejects

SpecExtract == InitExtract /\ [][NextExtract]_vars

IssueOutput(n) ==
    Obj([type |-> Str("issue"), url |-> Str("iu"), title |-> Str("it"), number |-> Num(n)])

BranchOutput == Obj([type |-> Str("branch"), name |-> Str("fix/login")])

\* values of the outputs property: absent, null, arrays of output records,
\* and malformed ones
OutputsShapes ==
    { Undefined, Null, Arr(<<>>),
      Arr(<<PrOutput, TextOutput>>),
      Arr(<<IssueOutput(1), IssueOutput(2), Obj([type |-> Str("log")])>>),
      Arr(<<TextOutput, BranchOutput, IssueOutput(1), PrOutput,
            Obj([type |-> Str("text"), content |-> Str("later")])>>),
      Arr(<<Obj([type |-> Str("pr")]), Obj([type |-> Str("text")])>>),
      Arr(<<PrOutput, Null>>),
      Str("oops"),
      Obj([type |-> Str("pr")]) }

\* raw run records, and records that are normalised already
RunShapes ==
    { Obj(("id" :> Str("r1")) @@ Opt("status", st) @@ Opt("outputs", o)
          @@ [k \in internal |-> Str("internal")] @@ extra) :
        st \in {Undefined, Str("completed")},
        o \in OutputsShapes,
        internal \in {{}, {"templateId"}, INTERNAL_FIELDS},
        extra \in { EmptyObj,
                    [branch |-> Str("main")],
                    [event |-> Str("run.created"), timestamp |-> Str("t0")],
                    [pr |-> Obj([url |-> Str("u"), title |-> Str("t"), number |-> Num(1)]),
                     issue |-> Null, branch |-> Null, summary |-> Str("s")] } }

InitFlatten ==
    /\ IdleExec
    /\ pc = "flatten"
    /\ arg \in RunShapes
    /\ res = Undefined
    /\ res2 = Undefined

\* flattenRunOutput(arg)
Flatten ==
    /\ pc = "flatten"
    /\ res' = flattenRunOutput(arg)
    /\ pc' = "flattened"
    /\ UNCHANGED <<execVarsButPc, arg, res2, hookVars>>

\* flattenRunOutput applied to what flattenRunOutput returned
Reflatten ==
    /\ pc = "flattened"
    /\ ~Threw(res)
    /\ res2' = flattenRunOutput(res.ret)
    /\ pc' = "reflattened"
    /\ UNCHANGED <<execVarsButPc, arg, res, hookVars>>

\* CospecTrigger.webhook: a payload arrives, with the run arg or without a run
Webhook ==
    /\ pc = "flatten"
    /\ \E r \in {Undefined, Null, arg} :
         /\ res2' = Obj(Opt("run", r) @@ [event |-> Str("run.completed"),
                                          timestamp |-> Str("2026-01-01T00:00:00Z")])
         /\ res' = buildTriggerOutput(res2')
    /\ pc' = "emitted"
    /\ UNCHANGED <<execVarsButPc, arg, hookVars>>

NextFlatten == Flatten \/ Reflatten \/ Webhook

SpecFlatten == InitFlatten /\ [][NextFlatten]_vars

-----------------------------------------------------------------------------
(* CospecTrigger: the webhook lifecycle (checkExists, createWebhook, deleteWebhook) *)

\* the most webhooks the remote service creates
MaxWebhooks == 3

\* a JavaScript boolean
Bool(b) == [bool |-> b]

\* this.getNodeWebhookUrl('default')
WebhookUrl == Str("https://n8n/webhook/1")

\* this.getNodeParameter('events')
EventChoices ==
    { Arr(<<Str("run.completed"), Str("run.failed"), Str("run.cancelled")>>),
      Arr(<<Str("run.failed")>>) }

\* an HTTP request of cospecApiRequest: method, path, body (undefined when none)
Request(method, path, body) == [method |-> method, path |-> path, body |-> body]

\* webhookData.webhookId
StoredId == Get(webhookData, "webhookId")

\* delete webhookData.webhookId
DeleteStoredId == Obj([k \in (DOMAIN webhookData.obj) \ {"webhookId"} |-> webhookData.obj[k]])

\* the id the remote service gives its n-th webhook
WebhookIdOf(n) == Str("wh" \o ToString(n))

\* the webhook records of the remote service, as GET /v1/webhooks lists them
RemoteList == [k \in 1..Len(remote) |-> Obj([id |-> remote[k], url |-> WebhookUrl])]

\* what GET /v1/webhooks answers: the list, the list behind a null entry, or a
\* body without data
ListResponses ==
    { Obj([data |-> Arr(RemoteList)]),
      Obj([data |-> Arr(<<Null>> \o RemoteList)]),
      Obj(EmptyObj) }

\* webhooks.some((wh) => wh.id === id), webhooks being the elements of an array
RECURSIVE some(_, _)
some(q, id) ==
    IF q = <<>> THEN Ret(Bool(FALSE))
    ELSE IF IsNullish(Head(q)) THEN Throw(TypeError)
    ELSE IF Get(Head(q), "id") = id THEN Ret(Bool(TRUE))
    ELSE some(Tail(q), id)

\* exists satisfied by any webhook listed
exists_AnyListed(listed, id) ==
    LET webhooks == Get(listed, "data")
    IN  IF IsArr(webhooks) THEN Ret(Bool(Len(webhooks.arr) > 0)) ELSE Throw(TypeError)

\* the try block of checkExists once the list request has answered `listed`
exists(listed, id) ==
    LET webhooks == Get(listed, "data")
    IN  IF IsArr(webhooks) THEN some(webhooks.arr, id) ELSE Throw(TypeError)

\* the sequence q without the element x
RECURSIVE Without(_, _)
Without(q, x) ==
    IF q = <<>> THEN <<>>
    ELSE IF Head(q) = x THEN Without(Tail(q), x)
    ELSE <<Head(q)>> \o Without(Tail(q), x)

\* RegistrationError without the message of the request's error
RegistrationError_Unknown(error) ==
    NodeOperationError(Str("Failed to register webhook: Unknown error"), EmptyObj)

\* the error createWebhook raises for the error `error` of its request
RegistrationError(error) ==
    NodeOperationError(
        Str("Failed to register webhook: "
            \o (IF Truthy(Get(error, "message")) THEN Text(Get(error, "message"))
                ELSE "Unknown error")),
        EmptyObj)

InitHook ==
    /\ IdleExec
    /\ pc = "idle"
    /\ arg = Undefined /\ res = Undefined /\ res2 = Undefined
    /\ webhookData = Obj(EmptyObj)
    /\ remote = <<>>
    /\ nextId = 0
    /\ hookReqs = <<>>
    /\ hookRes = Undefined

\* the variables the webhook lifecycle leaves alone
HookFrame ==
    UNCHANGED <<items, continueOnFail, i, now, slow, response, timeoutSeconds, runId,
                deadline, run, returnData, thrown, lastReq, pollStart, how, caught,
                nPost, nGet, nSleep, arg, res, res2>>

\* checkExists, up to its return false or its list request
CheckExists ==
    /\ pc = "idle"
    /\ hookReqs' = IF ~Truthy(StoredId) THEN <<>>
                   ELSE <<Request("GET", "/v1/webhooks", Undefined)>>
    /\ hookRes' = IF ~Truthy(StoredId) THEN Ret(Bool(FALSE)) ELSE Undefined
    /\ pc' = IF ~Truthy(StoredId) THEN "idle" ELSE "checkExists"
    /\ lastError' = Undefined
    /\ UNCHANGED <<webhookData, remote, nextId>>
    /\ HookFrame

\* checkExists, from the answer or the failure of its list request
CheckExistsListed ==
    /\ pc = "checkExists"
    /\ \/ \E listed \in ListResponses :
            LET found == exists(listed, StoredId)
            IN  /\ webhookData' = IF Threw(found) \/ found = Ret(Bool(FALSE))
                                  THEN DeleteStoredId ELSE webhookData
                /\ hookRes' = IF Threw(found) THEN Ret(Bool(FALSE)) ELSE found
                /\ UNCHANGED lastError
       \/ \E e \in HttpErrors :
            /\ lastError' = e
            /\ Threw(cospecApiRequestCatch(e))
            /\ webhookData' = DeleteStoredId
            /\ hookRes' = Ret(Bool(FALSE))
    /\ pc' = "idle"
    /\ UNCHANGED <<remote, nextId, hookReqs>>
    /\ HookFrame

\* createWebhook, up to its request
CreateWebhook ==
    /\ pc = "idle"
    /\ nextId < MaxWebhooks
    /\ \E events \in EventChoices :
         hookReqs' = <<Request("POST", "/v1/webhooks",
                               Obj([url |-> WebhookUrl, events |-> events]))>>
    /\ hookRes' = Undefined
    /\ pc' = "createWebhook"
    /\ lastError' = Undefined
    /\ UNCHANGED <<webhookData, remote, nextId>>
    /\ HookFrame

\* createWebhook, from the answer or the failure of its request
CreateWebhookPosted ==
    /\ pc = "createWebhook"
    /\ \/ LET answer == Obj([id |-> WebhookIdOf(nextId + 1), url |-> WebhookUrl])
          IN  /\ remote' = Append(remote, Get(answer, "id"))
              /\ nextId' = nextId + 1
              /\ webhookData' = Obj(With(webhookData.obj, "webhookId", Get(answer, "id")))
              /\ hookRes' = Ret(Bool(TRUE))
              /\ UNCHANGED lastError
       \/ \E e \in HttpErrors :
            /\ lastError' = e
            /\ hookRes' = Throw(RegistrationError(cospecApiRequestCatch(e).throw))
            /\ UNCHANGED <<webhookData, remote, nextId>>
    /\ pc' = "idle"
    /\ HookFrame
    /\ UNCHANGED hookReqs

\* deleteWebhook, up to its return true or its request
DeleteWebhook ==
    /\ pc = "idle"
    /\ hookReqs' = IF Truthy(StoredId)
                   THEN <<Request("DELETE", "/v1/webhooks/" \o Text(StoredId), Undefined)>>
                   ELSE <<>>
    /\ hookRes' = IF Truthy(StoredId) THEN Undefined ELSE Ret(Bool(TRUE))
    /\ pc' = IF Truthy(StoredId) THEN "deleteWebhook" ELSE "idle"
    /\ lastError' = Undefined
    /\ UNCHANGED <<webhookData, remote, nextId>>
    /\ HookFrame

\* DeleteWebhookDeleted keeping the identifier when the DELETE failed
DeleteWebhookDeleted_KeepOnFailure ==
    /\ pc = "deleteWebhook"
    /\ \/ /\ remote' = Without(remote, StoredId)
          /\ webhookData' = DeleteStoredId
          /\ UNCHANGED lastError
       \/ \E e \in HttpErrors :
            /\ lastError' = e
            /\ UNCHANGED <<remote, webhookData>>
    /\ hookRes' = Ret(Bool(TRUE))
    /\ pc' = "idle"
    /\ UNCHANGED <<nextId, hookReqs>>
    /\ HookFrame

\* deleteWebhook, from the answer or the failure of its request
DeleteWebhookDeleted ==
    /\ pc = "deleteWebhook"
    /\ \/ /\ remote' = Without(remote, StoredId)
          /\ UNCHANGED lastError
       \/ \E e \in HttpErrors :
            /\ lastError' = e
            /\ UNCHANGED remote
    /\ webhookData' = DeleteStoredId
    /\ hookRes' = Ret(Bool(TRUE))
    /\ pc' = "idle"
    /\ UNCHANGED <<nextId, hookReqs>>
    /\ HookFrame

\* the remote service loses a webhook (deleted by someone else)
RemoteRemoves ==
    /\ \E k \in 1..Len(remote) : remote' = Without(remote, remote[k])
    /\ UNCHANGED <<pc, lastError, webhookData, nextId, hookReqs, hookRes>>
    /\ HookFrame

NextHook ==
    \/ CheckExists
    \/ CheckExistsListed
    \/ CreateWebhook
    \/ CreateWebhookPosted
    \/ DeleteWebhook
    \/ DeleteWebhookDeleted
    \/ RemoteRemoves

SpecHook == InitHook /\ [][NextHook]_vars

-----------------------------------------------------------------------------
(* Properties: shared vocabulary *)

\* the index of the item whose work is under way or has just ended
LastIdx == IF how # "" /\ pc = "loop" THEN i - 1 ELSE i

\* the counters and locals describe an item (not the state before the first
\* item is taken up, nor the state after the last)
InItem == pc # "done" /\ ~(pc = "loop" /\ how = "")

last == items[LastIdx + 1]

LastEntry == returnData[Len(returnData)]

PollPcs == {"poll_test", "poll_sleep", "poll_get", "poll_check"}

\* pollUntilComplete was entered for the item
PollEntered == InItem /\ deadline # 0

HasTerminalStatus(r) ==
    IsStr(Get(r, "status")) /\ Get(r, "status").str \in {"completed", "failed", "cancelled"}

\* the first element of the array q whose type is `type`, undefined if none
FirstOutput(q, type) ==
    LET hits == {k \in 1..Len(q) : Get(q[k], "type") = Str(type)}
    IN  IF hits = {} THEN Undefined
        ELSE q[CHOOSE k \in hits : \A j \in hits : k <= j]

OutputsOf(raw) ==
    IF IsArr(Get(raw, "outputs")) THEN Get(raw, "outputs").arr ELSE <<>>

Linked(o) ==
    IF o = Undefined THEN Null
    ELSE Obj([url |-> Get(o, "url"), title |-> Get(o, "title"), number |-> Get(o, "number")])

\* out is the normalised form of the raw run: every top-level field of raw but
\* the four internal ones, unchanged, plus pr, issue, branch and summary
IsNormalizedOf(out, raw) ==
    LET kept == (DOMAIN raw.obj) \ {"callbackUrl", "callbackStatus", "cancelRequestedAt",
                                    "templateId"}
        q == OutputsOf(raw)
    IN  /\ IsObj(out)
        /\ DOMAIN out.obj = kept \cup {"pr", "issue", "branch", "summary"}
        /\ \A k \in kept : out.obj[k] = raw.obj[k]
        /\ out.obj["pr"] = Linked(FirstOutput(q, "pr"))
        /\ out.obj["issue"] = Linked(FirstOutput(q, "issue"))
        /\ out.obj["branch"] = IF FirstOutput(q, "branch") = Undefined THEN Null
                               ELSE Obj([name |-> Get(FirstOutput(q, "branch"), "name")])
        /\ out.obj["summary"] = IF FirstOutput(q, "text") = Undefined THEN Null
                                ELSE Coalesce(Get(FirstOutput(q, "text"), "content"), Null)

-----------------------------------------------------------------------------
(* C1 *)

C1_Inv ==
    /\ pc = "poll_check" => nGet = nSleep /\ nGet >= 1 /\ IsObj(run)
    /\ pc \in {"poll_test", "poll_sleep", "poll_get"} => run = Undefined
    /\ PollEntered /\ how = "returned" =>
          /\ HasTerminalStatus(run)
          /\ nGet = nSleep
          /\ IsNormalizedOf(LastEntry.json, run)

C1_Step ==
    /\ pc = "poll_check" =>
          IF HasTerminalStatus(run)
          THEN /\ pc' = "loop" /\ how' = "returned" /\ i' = i + 1
               /\ Len(returnData') = Len(returnData) + 1
               /\ SubSeq(returnData', 1, Len(returnData)) = returnData
               /\ IsNormalizedOf(returnData'[Len(returnData')].json, run)
               /\ returnData'[Len(returnData')].pairedItem = [item |-> i]
               /\ nGet' = nGet /\ nSleep' = nSleep /\ now' = now /\ thrown' = thrown
          ELSE /\ pc' = "poll_test" /\ how' = ""
               /\ returnData' = returnData /\ thrown' = thrown /\ i' = i
               /\ nGet' = nGet /\ nSleep' = nSleep
    /\ PollEntered /\ how = "returned" => pc' \in {"createRun", "getRun", "done"}

\* C1: pollUntilComplete returns the normalised run of the first fetch whose
\* status is completed, failed or cancelled, with no fetch or sleep after it; any
\* other status (unknown or missing too) sends it back to the loop test; when it
\* returns, it has slept once before each of its fetches (3 fetches, 3 sleeps
\* for running, running, completed).
C1_PollReturnsFirstTerminal == [](C1_Inv) /\ [][C1_Step]_vars

\* the poll returned the normalised completed run at its third fetch
C1_Witness ==
    /\ PollEntered /\ how = "returned" /\ pc = "loop"
    /\ nGet = 3 /\ nSleep = 3
    /\ Get(run, "status") = Str("completed")
    /\ Get(LastEntry.json, "summary") = Str("s")
    /\ "callbackStatus" \notin DOMAIN LastEntry.json.obj

-----------------------------------------------------------------------------
(* C2 *)

ExpectedTimeoutMessage ==
    Str("Run " \o Get(response, "id").str \o " did not complete within "
        \o ToString(last.timeoutSeconds) \o "s timeout")

\* C2 as stated: whenever no terminal status has come by the time timeoutSeconds
\* has elapsed (and no fetch failed), the poll ends in the timeout error that
\* names the run and timeoutSeconds.
C2_AsStated ==
    (/\ PollEntered /\ how \in {"returned", "timeout"}
     /\ ~(how = "returned" /\ now <= pollStart + last.timeoutSeconds * 1000))
    => (how = "timeout" /\ Get(caught, "message") = ExpectedTimeoutMessage)

\* how far the poll has come: four steps to an iteration
PollRank ==
    4 * nSleep + (CASE pc = "poll_get" -> 0 [] pc = "poll_check" -> 1
                    [] pc = "poll_test" -> 2 [] pc = "poll_sleep" -> 3 [] OTHER -> 0)

C2_Inv ==
    /\ PollEntered =>
          /\ deadline = pollStart + last.timeoutSeconds * 1000 + 60000
          /\ timeoutSeconds = last.timeoutSeconds
          /\ nSleep * 5000 < (deadline - pollStart) + 5000
          /\ now >= pollStart + nSleep * 5000
    /\ pc = "poll_sleep" => now < deadline
    /\ PollEntered /\ how \in {"returned", "timeout"} /\ ~HasTerminalStatus(run)
          => how = "timeout"
    /\ how = "timeout" =>
          /\ PollEntered
          /\ now >= deadline
          /\ run = Undefined
          /\ Get(caught, "name") = Str("NodeOperationError")
          /\ Get(caught, "message") = ExpectedTimeoutMessage
          /\ IF continueOnFail
             THEN LastEntry.json = Obj([error |-> ExpectedTimeoutMessage])
             ELSE Get(thrown, "message") = ExpectedTimeoutMessage

\* every step of the poll ends it or takes it further (at most 13 sleeps), and
\* stays in the poll only towards the next of test, sleep, fetch, check
C2_Step ==
    pc \in PollPcs =>
        \/ pc' \in {"loop", "aborted"} /\ how' # ""
        \/ pc' \in PollPcs /\ PollRank' = PollRank + 1 /\ deadline' = deadline

\* C2, amended: when no fetch of the poll returns a terminal status and none
\* fails, the poll ends in the timeout error naming the run and the original
\* timeoutSeconds; the deadline is start + timeoutSeconds + 60 s, a sleep is
\* begun only while now < deadline (so the sleeps are bounded and the poll
\* ends), and the timeout error is raised only with now >= deadline and no
\* terminal status fetched.
C2_TimeoutAtDeadline == [](C2_Inv) /\ [][C2_Step]_vars

\* the poll timed out after fetching past the deadline
C2_Witness ==
    /\ how = "timeout" /\ now > deadline /\ nGet = nSleep /\ nGet >= 13

-----------------------------------------------------------------------------
(* C3 *)

\* the message of a located response body: detail if a string, else the message
\* of the first entry of a non-empty errors array if a string, else title if a
\* string
BodyMessage(body) ==
    LET errors == Get(body, "errors")
        first  == IF IsArr(errors) /\ Len(errors.arr) > 0 THEN errors.arr[1] ELSE Undefined
    IN  IF IsStr(Get(body, "detail")) THEN Get(body, "detail")
        ELSE IF IsStr(Get(first, "message")) THEN Get(first, "message")
        ELSE IF IsStr(Get(body, "title")) THEN Get(body, "title")
        ELSE Undefined

\* the first available message in the fixed order: the context body's, the
\* cause body's, the description string, the error's own message, the literal
FirstAvailable(error) ==
    LET fromContext == BodyMessage(Get(Get(error, "context"), "data"))
        fromCause   == BodyMessage(Get(Get(Get(error, "cause"), "response"), "data"))
    IN  IF fromContext # Undefined THEN fromContext
        ELSE IF fromCause # Undefined THEN fromCause
        ELSE IF IsStr(Get(error, "description")) THEN Get(error, "description")
        ELSE IF Truthy(Get(error, "message")) THEN Get(error, "message")
        ELSE Str("Unknown API error")

C3_Inv ==
    PollEntered /\ how = "failed" =>
        /\ pc \in {"loop", "aborted"}
        /\ nGet >= 1 /\ nGet = nSleep
        /\ Get(caught, "name") = Str("NodeOperationError")
        /\ Get(caught, "message") = FirstAvailable(lastError)
        /\ Get(caught, "message") # ExpectedTimeoutMessage
        /\ IF continueOnFail
           THEN LastEntry.json = Obj([error |-> FirstAvailable(lastError)])
           ELSE Get(thrown, "message") = FirstAvailable(lastError)

C3_Step ==
    /\ pc = "poll_get" =>
          \/ /\ how' = "" /\ pc' = "poll_check" /\ IsObj(run')
             /\ lastError' = lastError /\ returnData' = returnData
          \/ /\ how' = "failed" /\ pc' \in {"loop", "aborted"}
             /\ lastError' \in HttpErrors
             /\ nGet' = nGet + 1 /\ nSleep' = nSleep
    /\ PollEntered /\ how = "failed" =>
          /\ pc' \in {"createRun", "getRun", "done"}
          /\ i' = i

\* C3: a GET that fails during polling ends the poll at that fetch: the error
\* carrying the extracted API message (not the timeout error) reaches execute,
\* deadline reached or not, and the next step is the next item's (or none): no
\* retry, no further sleep or fetch for that run.
C3_FailedGetEndsPoll == [](C3_Inv) /\ [][C3_Step]_vars

\* the second fetch of a poll failed well before the deadline
C3_Witness ==
    /\ PollEntered /\ how = "failed" /\ nGet = 2 /\ now < deadline
    /\ Get(caught, "message") = Str("Run not found")

-----------------------------------------------------------------------------
(* C4 *)

Failed == how \in {"failed", "timeout", "threw"}

C4_Inv ==
    /\ Len(returnData) = i
    /\ \A k \in 1..Len(returnData) : returnData[k].pairedItem = [item |-> k - 1]
    /\ pc = "done" => i = Len(items)
    /\ pc \notin {"done", "aborted"} /\ ~(pc = "loop") => i < Len(items)
    /\ thrown # Undefined <=> pc = "aborted"
    /\ pc = "aborted" => Failed /\ ~continueOnFail
    /\ Failed =>
          IF continueOnFail
          THEN /\ pc = "loop"
               /\ LastEntry = [json |-> Obj([error |-> Get(caught, "message")]),
                               pairedItem |-> [item |-> LastIdx]]
          ELSE /\ pc = "aborted"
               /\ Get(Get(thrown, "context"), "itemIndex") = Num(i)
               /\ Get(thrown, "message") = Get(caught, "message")
               /\ i < Len(items)

C4_Step ==
    /\ pc # "aborted"
    /\ \/ i' = i /\ (returnData' = returnData)
       \/ i' = i + 1 /\ pc' = "loop" /\ how' # ""
          /\ SubSeq(returnData', 1, Len(returnData)) = returnData
    /\ (nPost' > nPost \/ nGet' > nGet \/ nSleep' > nSleep) => how = "" /\ i < Len(items)

\* C4: execute works through the items one after another in index order, one
\* output entry per item worked, paired with its index. With continueOnFail a
\* failing item becomes the entry {error: message} and the loop goes on to the
\* next item; without it the first failure ends execute: no step (so no request)
\* follows, and the error raised carries the failing item's index.
C4_ItemsInOrder == [](C4_Inv) /\ [][C4_Step]_vars

\* best effort: the first of two items failed, the second was still worked
C4_Witness ==
    /\ continueOnFail /\ pc = "done" /\ Len(items) = 2 /\ Len(returnData) = 2
    /\ DOMAIN returnData[1].json.obj = {"error"}
    /\ "error" \notin DOMAIN returnData[2].json.obj

-----------------------------------------------------------------------------
(* C5 *)

IsCreate == InItem /\ last.operation = "Create Run"

C5_Inv ==
    /\ nPost <= 1
    /\ IsCreate =>
          /\ pc # "createRun" => nPost = 1
          /\ (nGet > 0 \/ nSleep > 0 \/ pc \in PollPcs) =>
                /\ last.waitForCompletion
                /\ nPost = 1
                /\ IsObj(response)
                /\ runId = Get(response, "id")
                /\ runId = Str("r" \o ToString(LastIdx + 1))
          /\ nGet > 0 => lastReq = <<"GET", "/v1/runs/" \o Get(response, "id").str>>
          /\ nGet = 0 /\ nPost = 1 => lastReq = <<"POST", "/v1/runs">>
          /\ response = Undefined => nGet = 0 /\ nSleep = 0 /\ pc \notin PollPcs
          /\ ~last.waitForCompletion =>
                /\ nGet = 0 /\ nSleep = 0
                /\ how = "returned" =>
                      /\ LastEntry.json = response
                      /\ Get(LastEntry.json, "id") = Str("r" \o ToString(LastIdx + 1))

\* C5: Create Run issues exactly one POST /v1/runs, before anything else.
\* Without Wait for Completion it returns the POST's response (with the run id)
\* and neither sleeps nor GETs. With it, polling begins only once the POST has
\* answered, GETs /v1/runs/{id} with the id of that answer, and a failed POST
\* leaves the item without any sleep or GET.
C5_PostThenPoll == C5_Inv

\* the poll of the second item has fetched the run the second POST created
C5_Witness ==
    /\ IsCreate /\ LastIdx = 1 /\ pc = "poll_check" /\ nGet = 2
    /\ lastReq = <<"GET", "/v1/runs/r2">>

-----------------------------------------------------------------------------
(* C6 *)

\* the raw run the entry just pushed was made from
RawOfLast ==
    IF last.operation = "Create Run" /\ ~last.waitForCompletion THEN response ELSE run

\* C6: every record the action node emits on success (Create Run with or
\* without waiting, Get Run) is the normalised form of the run: pr, issue,
\* branch and summary present, the internal fields absent.
C6_OutputsNormalized ==
    InItem /\ how = "returned" => IsNormalizedOf(LastEntry.json, RawOfLast)

-----------------------------------------------------------------------------
(* C7 *)

\* C7: extractApiErrorMessage returns the first available message in the fixed
\* order: the context body's, else the cause body's (within a body: detail if a
\* string, else errors[0].message if errors is a non-empty array, else title if
\* a string), else the description string, else the error's own message, else
\* "Unknown API error".
C7_PriorityOrder ==
    pc \in {"extracted", "rejected"} => res = Ret(FirstAvailable(arg))

-----------------------------------------------------------------------------
(* C8 *)

\* C8: the extractor never throws and always returns a non-empty string, and a
\* failed HTTP call surfaces from cospecApiRequest as one NodeOperationError
\* carrying the extracted message.
C8_NeverFails ==
    /\ pc \in {"extracted", "rejected"} =>
          /\ ~Threw(res)
          /\ IsStr(res.ret) /\ res.ret.str # ""
    /\ pc = "rejected" =>
          /\ Threw(res2)
          /\ Get(res2.throw, "name") = Str("NodeOperationError")
          /\ ~Threw(res) /\ Get(res2.throw, "message") = res.ret

-----------------------------------------------------------------------------
(* C9 *)

\* C9: for every raw run record flattenRunOutput returns exactly the original
\* top-level fields but the four internal ones, each with its original value,
\* plus pr, issue, branch and summary taken from the first output of each type.
C9_NormalizeExact ==
    pc \in {"flattened", "reflattened"} => ~Threw(res) /\ IsNormalizedOf(res.ret, arg)

-----------------------------------------------------------------------------
(* C10 *)

Derived(o) == [k \in {"pr", "issue", "branch", "summary"} |-> Get(o, k)]

\* a record that is normalised already and has no outputs left
CleanWithoutOutputs(o) ==
    /\ {"pr", "issue", "branch", "summary"} \subseteq DOMAIN o.obj
    /\ (DOMAIN o.obj) \cap ({"outputs"} \cup INTERNAL_FIELDS) = {}

\* C10: normalising never fails, normalising twice gives the derived fields of
\* normalising once, and a normalised record without outputs keeps its derived
\* fields when normalised again.
C10_Idempotent ==
    /\ pc \in {"flattened", "reflattened"} => ~Threw(res)
    /\ pc = "reflattened" => ~Threw(res2) /\ Derived(res2.ret) = Derived(res.ret)
    /\ pc \in {"flattened", "reflattened"} /\ CleanWithoutOutputs(arg) =>
          ~Threw(res) /\ Derived(res.ret) = Derived(arg)

-----------------------------------------------------------------------------
(* C11 *)

\* an identifier is stored in the trigger's static data
HasStoredId == "webhookId" \in DOMAIN webhookData.obj

\* the remote service has a webhook with the stored identifier
RemoteHasStored == \E k \in 1..Len(remote) : remote[k] = StoredId

ListRequest == [method |-> "GET", path |-> "/v1/webhooks", body |-> Undefined]

C11_Inv ==
    /\ pc = "checkExists" =>
          HasStoredId /\ IsStr(StoredId) /\ hookReqs = <<ListRequest>> /\ hookRes = Undefined
    /\ hookRes = Ret(Bool(FALSE)) =>
          /\ pc = "idle"
          /\ ~HasStoredId
          /\ hookReqs \in {<<>>, <<ListRequest>>}

C11_Step ==
    /\ pc = "checkExists" /\ pc' = "idle" =>
          /\ hookRes' \in {Ret(Bool(TRUE)), Ret(Bool(FALSE))}
          /\ hookRes' = Ret(Bool(TRUE)) =>
                HasStoredId /\ RemoteHasStored /\ webhookData' = webhookData
          /\ ~RemoteHasStored => hookRes' = Ret(Bool(FALSE))
          /\ lastError' # Undefined => hookRes' = Ret(Bool(FALSE))
          /\ hookRes' = Ret(Bool(FALSE)) => ~HasStoredId'
          /\ hookReqs' = hookReqs /\ remote' = remote
    /\ pc = "idle" /\ ~HasStoredId =>
          /\ pc' # "checkExists"
          /\ remote' = remote /\ hookRes' = Ret(Bool(FALSE)) =>
                hookReqs' = <<>> /\ pc' = "idle"
    /\ pc = "idle" /\ pc' = "idle" =>
          hookRes' \in {hookRes, Ret(Bool(FALSE)), Ret(Bool(TRUE))}

\* C11: checkExists returns true only when an identifier is stored and the
\* remote list has a webhook with it, and then leaves the stored identifier
\* alone; when the remote list lacks it or the list request fails it clears the
\* stored identifier and returns false, raising nothing; with no identifier
\* stored it returns false without a request. After a checkExists that returned
\* false no identifier is stored.
C11_SelfHealing == [](C11_Inv) /\ [][C11_Step]_vars

\* checkExists found the stored webhook gone from the remote list, which still
\* holds an older one, and cleared the stored identifier
C11_Witness ==
    /\ pc = "idle" /\ hookRes = Ret(Bool(FALSE)) /\ hookReqs = <<ListRequest>>
    /\ lastError = Undefined /\ nextId = 2 /\ remote = <<Str("wh1")>> /\ ~HasStoredId

-----------------------------------------------------------------------------
(* C12 *)

IsRegistrationRequest(r) ==
    /\ r.method = "POST" /\ r.path = "/v1/webhooks"
    /\ IsObj(r.body) /\ DOMAIN r.body.obj = {"url", "events"}
    /\ r.body.obj["url"] = Str("https://n8n/webhook/1")
    /\ IsArr(r.body.obj["events"])

ExpectedRegistrationMessage ==
    Str("Failed to register webhook: " \o FirstAvailable(lastError).str)

C12_Inv ==
    /\ pc = "createWebhook" =>
          /\ hookRes = Undefined
          /\ Len(hookReqs) = 1 /\ IsRegistrationRequest(hookReqs[1])
    /\ Threw(hookRes) =>
          /\ pc = "idle"
          /\ Len(hookReqs) = 1 /\ IsRegistrationRequest(hookReqs[1])
          /\ Get(hookRes.throw, "name") = Str("NodeOperationError")
          /\ Get(hookRes.throw, "message") = ExpectedRegistrationMessage

C12_Step ==
    /\ pc = "idle" /\ pc' = "createWebhook" => webhookData' = webhookData /\ remote' = remote
    /\ pc = "createWebhook" /\ pc' = "idle" =>
          /\ hookReqs' = hookReqs
          /\ IF lastError' # Undefined
             THEN /\ Threw(hookRes')
                  /\ webhookData' = webhookData
                  /\ remote' = remote
             ELSE /\ hookRes' = Ret(Bool(TRUE))
                  /\ Len(remote') = Len(remote) + 1
                  /\ SubSeq(remote', 1, Len(remote)) = remote
                  /\ \A k \in 1..Len(remote) : remote[k] # remote'[Len(remote')]
                  /\ HasStoredId'
                  /\ StoredId' = remote'[Len(remote')]
    /\ pc = "createWebhook" => pc' \in {"createWebhook", "idle"}

\* C12: createWebhook issues one POST /v1/webhooks with {url, events} and no
\* other request. When the request is rejected the call raises the error
\* "Failed to register webhook: " followed by the extracted API message, the
\* stored identifier is what it was, and the call is over (no second POST);
\* when it succeeds the stored identifier is the id the remote service gave the
\* new webhook.
C12_RegisterOnce == [](C12_Inv) /\ [][C12_Step]_vars

\* a registration was rejected while an identifier from an earlier one is stored
C12_Witness ==
    /\ Threw(hookRes)
    /\ Get(hookRes.throw, "message") = Str("Failed to register webhook: Run not found")
    /\ StoredId = Str("wh1") /\ Len(hookReqs) = 1

-----------------------------------------------------------------------------
(* C13 *)

IsDeleteRequestFor(r, id) ==
    r.method = "DELETE" /\ r.path = "/v1/webhooks/" \o id.str /\ r.body = Undefined

C13_Inv ==
    /\ HasStoredId => IsStr(StoredId) /\ StoredId.str # ""
    /\ pc = "deleteWebhook" =>
          /\ HasStoredId /\ hookRes = Undefined
          /\ Len(hookReqs) = 1 /\ IsDeleteRequestFor(hookReqs[1], StoredId)
    /\ \A k \in 1..Len(hookReqs) : hookReqs[k].method = "DELETE" =>
          /\ Len(hookReqs) = 1
          /\ ~Threw(hookRes)
          /\ pc = "idle" => hookRes = Ret(Bool(TRUE)) /\ ~HasStoredId
    /\ Threw(hookRes) => hookReqs[1].method = "POST"

C13_Step ==
    /\ pc = "deleteWebhook" /\ pc' = "idle" =>
          /\ hookRes' = Ret(Bool(TRUE))
          /\ ~HasStoredId'
          /\ hookReqs' = hookReqs
          /\ remote' \in {remote, Without(remote, StoredId)}
    /\ pc = "idle" /\ pc' = "deleteWebhook" => HasStoredId /\ webhookData' = webhookData
    /\ pc = "idle" /\ pc' = "idle" /\ remote' = remote /\ hookRes' = Ret(Bool(TRUE)) =>
          ~HasStoredId /\ ~HasStoredId' /\ hookReqs' = <<>>
    /\ webhookData' # webhookData =>
          \/ /\ pc = "createWebhook" /\ hookRes' = Ret(Bool(TRUE)) /\ HasStoredId'
          \/ /\ pc = "deleteWebhook" /\ hookRes' = Ret(Bool(TRUE))
             /\ HasStoredId /\ ~HasStoredId'
          \/ /\ pc = "checkExists" /\ hookRes' = Ret(Bool(FALSE))
             /\ HasStoredId /\ ~HasStoredId'

\* C13: in every sequence of checkExists, createWebhook and deleteWebhook calls,
\* whatever the remote service answers: deleteWebhook raises nothing and returns
\* true; it issues DELETE /v1/webhooks/{id}, once, only with an identifier
\* stored; when it has returned no identifier is stored, the DELETE having
\* succeeded or failed; the stored identifier changes only by a successful
\* createWebhook (set), by deleteWebhook, or by a checkExists returning false
\* (cleared).
C13_Lifecycle == [](C13_Inv) /\ [][C13_Step]_vars

\* deleteWebhook returned true after its DELETE failed: nothing is stored while
\* the remote service still holds the webhook
C13_Witness ==
    /\ pc = "idle" /\ hookRes = Ret(Bool(TRUE)) /\ lastError # Undefined
    /\ Len(hookReqs) = 1 /\ hookReqs[1].path = "/v1/webhooks/wh1"
    /\ ~HasStoredId /\ remote = <<Str("wh1")>>

=============================================================================
